---- MODULE Spec2Model ----
(***************************************************************************)
(* A model of hippofactory's expansion engine (src/src/expander.rs):       *)
(* expand turns a parsed HIPPOFACTS manifest into a bindle invoice.        *)
(*                                                                         *)
(* Option<T> is a sequence of length 0 (None) or 1 (Some(x)).              *)
(* Result<T> is <<"Ok", v>> or <<"Err", e>>.                               *)
(***************************************************************************)
EXTENDS Naturals, Sequences, FiniteSets, TLC

VARIABLES
    raw,                \* the deserialised manifest: RawHippoFacts.handler
    hippofacts,         \* the parsed manifest: [handler |-> Seq(Handler)]
    fs,                 \* the directory relative_to: file name -> status
    bindle_server_url,  \* ExpansionContext.bindle_server_url : Option<String>
    pc,                 \* where expand is: "start", "join", "done"
    groups,             \* expand's local `groups`
    conversions,        \* the futures handed to join_all, one per handler
    requested,          \* handlers whose get_yanked_invoice call was issued
    responses,          \* what get_yanked_invoice answered each handler, if it has
    completed,          \* the handlers whose fetch was answered, in order of answer
    handler_parcels,    \* expand's local `handler_parcels`
    premerge,           \* expand_all_files_to_parcels' local `parcels`
    file_parcels,       \* expand's local `file_parcels`
    remerged,           \* merge_memberships applied to its own output
    result              \* what expand returned : Option<Result<Invoice>>

vars == << raw, hippofacts, fs, bindle_server_url, pc, groups, conversions,
           requested, responses, completed, handler_parcels, premerge,
           file_parcels, remerged, result >>

----------------------------------------------------------------------------
(* Bounds of the model *)

MaxHandlers == 2

MaxLen == 3

----------------------------------------------------------------------------
(* Option and Result *)

None == <<>>

Some(x) == <<x>>

IsSome(o) == Len(o) = 1

Ok(v) == <<"Ok", v>>

Err(e) == <<"Err", e>>

IsOk(r) == r[1] = "Ok"

IsErr(r) == r[1] = "Err"

----------------------------------------------------------------------------
(* The inputs: manifest, directory, registry *)

File(name) == [kind |-> "File", name |-> name]

External(parcel_ref) == [kind |-> "External", parcel_ref |-> parcel_ref]

ParcelRefs == { [bindle_id |-> "pkg/1.0.0", name |-> "lib.wasm"] }

HandlerModules == { File("w.wasm") } \cup { External(r) : r \in ParcelRefs }

Routes == << "/a", "/b", "/c", "/d" >>

RouteOf(i) == Routes[((i - 1) % Len(Routes)) + 1]

FilesChoices ==
    { None, Some(<<>>), Some(<<"a.js">>), Some(<<"*">>), Some(<<"a.js", "*">>) }

FileNames == { "a.js", "w.wasm" }

Contents == { "c1", "c2" }

FileSystems ==
    { [f \in FileNames |-> IF f = "w.wasm" THEN w ELSE a] :
        w \in { "c1", "absent" }, a \in { "c1", "c2", "absent", "denied", "globerr" } }

ServerUrls == { None, Some("not a url"), Some("http://bindle") }

Handlers(i) ==
    { [handler_module |-> m, route |-> RouteOf(i), files |-> f] :
        m \in HandlerModules, f \in FilesChoices }

RECURSIVE HandlerLists(_)
HandlerLists(n) ==
    IF n = 0 THEN { <<>> }
    ELSE { Append(hs, h) : hs \in HandlerLists(n - 1), h \in Handlers(n) }

Manifests ==
    { [handler |-> hs] : hs \in UNION { HandlerLists(n) : n \in 1..MaxHandlers } }

----------------------------------------------------------------------------
(* ExpansionContext: paths are sequences of components *)

relative_to == << "app" >>

to_absolute(pattern) == relative_to \o << pattern >>

HasPrefix(path, prefix) ==
    /\ Len(path) >= Len(prefix)
    /\ SubSeq(path, 1, Len(prefix)) = prefix

to_relative(path) ==
    IF HasPrefix(path, relative_to) /\ Len(path) = Len(relative_to) + 1
    THEN Ok(path[Len(path)])
    ELSE Err("strip_prefix")

----------------------------------------------------------------------------
(* The file system and the libraries expand calls *)

StatusAt(dir, path) ==
    IF HasPrefix(path, relative_to) /\ Len(path) = Len(relative_to) + 1
       /\ path[Len(path)] \in DOMAIN dir
    THEN dir[path[Len(path)]]
    ELSE "absent"

Sha256(content) ==
    CASE content = "c1" -> "9f86d081"
      [] content = "c2" -> "60303ae2"
      [] OTHER -> "e3b0c442"

SizeOf(content) ==
    CASE content = "c1" -> 10
      [] content = "c2" -> 20
      [] OTHER -> 0

mime_guess(path) ==
    CASE path[Len(path)] = "w.wasm" -> "application/wasm"
      [] path[Len(path)] = "a.js" -> "application/javascript"
      [] OTHER -> "application/octet-stream"

\* The directory entries a pattern selects, in the order glob yields them
\* (alphabetical).
Candidates(pattern) ==
    CASE pattern = "*" -> << "a.js", "w.wasm" >>
      [] pattern \in FileNames -> << pattern >>
      [] OTHER -> <<>>

\* A glob that also yields the entries that do not exist
RECURSIVE GlobEntries_keep_absent(_, _, _)
GlobEntries_keep_absent(dir, prefix, names) ==
    IF names = <<>> THEN <<>>
    ELSE LET f == Head(names)
             rest == GlobEntries_keep_absent(dir, prefix, Tail(names))
         IN  IF dir[f] = "globerr" THEN << Err("GlobError") >> \o rest
             ELSE << Ok(prefix \o << f >>) >> \o rest

RECURSIVE GlobEntries(_, _, _)
GlobEntries(dir, prefix, names) ==
    IF names = <<>> THEN <<>>
    ELSE LET f == Head(names)
             rest == GlobEntries(dir, prefix, Tail(names))
         IN  CASE dir[f] = "absent" -> rest
               [] dir[f] = "globerr" -> << Err("GlobError") >> \o rest
               [] OTHER -> << Ok(prefix \o << f >>) >> \o rest

\* glob::glob on an absolute pattern: the matches, each a Result<PathBuf, GlobError>
glob(dir, abs_pattern) ==
    GlobEntries(dir, SubSeq(abs_pattern, 1, Len(abs_pattern) - 1),
                Candidates(abs_pattern[Len(abs_pattern)]))

----------------------------------------------------------------------------
(* Parcel construction *)

vector_of(option) == IF IsSome(option) THEN Some(<< option[1] >>) ELSE None

\* BTreeMap from a list of (key, value) pairs: a later pair replaces an earlier one
feature_map_of(values) ==
    [ k \in { values[i][1] : i \in DOMAIN values } |->
        values[CHOOSE i \in DOMAIN values :
                 /\ values[i][1] = k
                 /\ \A j \in DOMAIN values : values[j][1] = k => j <= i][2] ]

wagi_feature_of(values) == [ wagi |-> feature_map_of(values) ]

parcel_of(name, digest_string, media_type, size, wagi_features, member_of, requires) ==
    Ok([ label |-> [ name |-> name,
                     sha256 |-> digest_string,
                     media_type |-> media_type,
                     size |-> size,
                     feature |-> Some(wagi_feature_of(wagi_features)) ],
         conditions |-> Some([ member_of |-> vector_of(member_of),
                               requires |-> vector_of(requires) ]) ])

convert_one_match_to_parcel(dir, path, wagi_features, member_of, requires) ==
    LET status == StatusAt(dir, path)
        name == to_relative(path)
    IN  IF status \notin Contents THEN Err("open")
        ELSE IF IsErr(name) THEN name
        ELSE parcel_of(name[2], Sha256(status), mime_guess(path), SizeOf(status),
                       wagi_features, member_of, requires)

----------------------------------------------------------------------------
(* Collections *)

\* A merge that drops the second list when both are present
merge_lists_keep_first(first, second) ==
    IF IsSome(first) THEN first ELSE second

merge_lists(first, second) ==
    CASE ~IsSome(first) /\ ~IsSome(second) -> None
      [] IsSome(first) /\ ~IsSome(second) -> first
      [] ~IsSome(first) /\ IsSome(second) -> second
      [] OTHER -> Some(first[1] \o second[1])

\* A best-effort flatten that drops the failed elements
RECURSIVE flatten_or_fail_skip_errors(_)
flatten_or_fail_skip_errors(source) ==
    IF source = <<>> THEN Ok(<<>>)
    ELSE LET rest == flatten_or_fail_skip_errors(Tail(source))
         IN  IF IsErr(Head(source)) THEN rest
             ELSE Ok(Head(source)[2] \o rest[2])

\* source is a sequence of Result<Vec<T>>: the first Err, or all the Ok lists appended
RECURSIVE flatten_or_fail(_)
flatten_or_fail(source) ==
    IF source = <<>> THEN Ok(<<>>)
    ELSE IF IsErr(Head(source)) THEN Head(source)
    ELSE LET rest == flatten_or_fail(Tail(source))
         IN  IF IsErr(rest) THEN rest ELSE Ok(Head(source)[2] \o rest[2])

\* A collect that reports the last Err
RECURSIVE collect_last_error(_)
collect_last_error(results) ==
    IF results = <<>> THEN Ok(<<>>)
    ELSE LET rest == collect_last_error(Tail(results))
         IN  IF IsErr(rest) THEN rest
             ELSE IF IsErr(Head(results)) THEN Head(results)
             ELSE Ok(<< Head(results)[2] >> \o rest[2])

\* Iterator<Result<T>>::collect::<Result<Vec<T>>>(): the first Err, or all the values
RECURSIVE collect(_)
collect(results) ==
    IF results = <<>> THEN Ok(<<>>)
    ELSE IF IsErr(Head(results)) THEN Head(results)
    ELSE LET rest == collect(Tail(results))
         IN  IF IsErr(rest) THEN rest ELSE Ok(<< Head(results)[2] >> \o rest[2])

----------------------------------------------------------------------------
(* Groups *)

group_name(handler) ==
    IF handler.handler_module.kind = "File"
    THEN handler.handler_module.name \o "-files"
    ELSE handler.handler_module.parcel_ref.name \o "-files"

expand_to_group(handler) ==
    [ name |-> group_name(handler), required |-> None, satisfied_by |-> None ]

\* A group list that keeps one group per distinct name
expand_all_handlers_to_groups_dedup(facts) ==
    LET RECURSIVE firsts(_)
        firsts(n) ==
            IF n = 0 THEN <<>>
            ELSE IF \E j \in 1..(n - 1) :
                      group_name(facts.handler[j]) = group_name(facts.handler[n])
                 THEN firsts(n - 1)
                 ELSE Append(firsts(n - 1), expand_to_group(facts.handler[n]))
    IN  Ok(firsts(Len(facts.handler)))

expand_all_handlers_to_groups(facts) ==
    Ok([ i \in DOMAIN facts.handler |-> expand_to_group(facts.handler[i]) ])

----------------------------------------------------------------------------
(* Asset parcels *)

\* An asset parcel that carries an empty route beside the file flag
try_convert_one_match_to_parcel_with_route(dir, path, member_of) ==
    IF IsErr(path) THEN path
    ELSE convert_one_match_to_parcel(dir, path[2],
                                     << <<"route", "">>, <<"file", "true">> >>,
                                     Some(member_of), None)

try_convert_one_match_to_parcel(dir, path, member_of) ==
    IF IsErr(path) THEN path
    ELSE convert_one_match_to_parcel(dir, path[2], << <<"file", "true">> >>,
                                     Some(member_of), None)

\* Asset parcels that also require the group they belong to
expand_file_to_parcels_requiring(dir, pattern, member_of) ==
    LET paths == glob(dir, to_absolute(pattern))
    IN  collect([ i \in DOMAIN paths |->
                    IF IsErr(paths[i]) THEN paths[i]
                    ELSE convert_one_match_to_parcel(dir, paths[i][2],
                                                     << <<"file", "true">> >>,
                                                     Some(member_of), Some(member_of)) ])

expand_file_to_parcels(dir, pattern, member_of) ==
    LET paths == glob(dir, to_absolute(pattern))
    IN  collect([ i \in DOMAIN paths |->
                    try_convert_one_match_to_parcel(dir, paths[i], member_of) ])

expand_files_to_parcels(dir, handler) ==
    LET patterns == IF IsSome(handler.files) THEN handler.files[1] ELSE <<>>
    IN  flatten_or_fail([ i \in DOMAIN patterns |->
            expand_file_to_parcels(dir, patterns[i], group_name(handler)) ])

\* expand_all_files_to_parcels up to the merge: its local `parcels`
all_files_unmerged(dir, facts) ==
    flatten_or_fail([ i \in DOMAIN facts.handler |->
                        expand_files_to_parcels(dir, facts.handler[i]) ])

----------------------------------------------------------------------------
(* Merging parcels of one identity *)

\* An identity that leaves the name out
file_id_digest_only(parcel) == parcel.label.sha256

file_id(parcel) == parcel.label.sha256 \o "@" \o parcel.label.name

\* A merge that takes a later requires when the first parcel has none
merge_condition_lists_later_requires(first, second) ==
    [ member_of |-> merge_lists(first.member_of, second.member_of),
      requires |-> IF IsSome(first.requires) THEN first.requires ELSE second.requires ]

merge_condition_lists(first, second) ==
    [ member_of |-> merge_lists(first.member_of, second.member_of),
      requires |-> first.requires ]

merge_parcel_conditions(first, second) ==
    IF ~IsSome(first) THEN second
    ELSE IF ~IsSome(second) THEN first
    ELSE Some(merge_condition_lists(first[1], second[1]))

merge_parcel_into(first, second) ==
    [ label |-> first.label,
      conditions |-> merge_parcel_conditions(first.conditions, second.conditions) ]

\* fold_first over one group of the grouping map, in encounter order
RECURSIVE fold_first(_)
fold_first(vals) ==
    IF Len(vals) = 1 THEN vals[1]
    ELSE merge_parcel_into(fold_first(SubSeq(vals, 1, Len(vals) - 1)), vals[Len(vals)])

SelectSeqBy(seq, key) ==
    LET RECURSIVE sel(_)
        sel(i) == IF i > Len(seq) THEN <<>>
                  ELSE IF file_id(seq[i]) = key THEN << seq[i] >> \o sel(i + 1)
                  ELSE sel(i + 1)
    IN  sel(1)

\* into_grouping_map_by(file_id).fold_first(..): a HashMap from identity to parcel
grouping_map(parcels) ==
    [ k \in { file_id(parcels[i]) : i \in DOMAIN parcels } |->
        fold_first(SelectSeqBy(parcels, k)) ]

\* The orders in which a HashMap's values() may iterate: any
Orders(keys) ==
    { o \in [1..Cardinality(keys) -> keys] :
        \A i, j \in 1..Cardinality(keys) : o[i] = o[j] => i = j }

\* merge_memberships: every list the call can return
merge_memberships(parcels) ==
    LET map == grouping_map(parcels)
    IN  { [ i \in DOMAIN o |-> map[o[i]] ] : o \in Orders(DOMAIN map) }

----------------------------------------------------------------------------
(* Handler-module parcels *)

SourceParcel(name, sha256, size) ==
    [ label |-> [ name |-> name, sha256 |-> sha256,
                  media_type |-> "application/x-remote", size |-> size,
                  feature |-> None ],
      conditions |-> None ]

\* What get_yanked_invoice may answer: an error, or an invoice whose parcel list
\* holds zero, one or two parcels of the referenced name
FetchResponses ==
    { Err("fetch"),
      Ok([ parcel |-> None ]),
      Ok([ parcel |-> Some(<< SourceParcel("other.wasm", "0b5e1a", 30) >>) ]),
      Ok([ parcel |-> Some(<< SourceParcel("other.wasm", "0b5e1a", 30),
                              SourceParcel("lib.wasm", "77ac3f", 40) >>) ]),
      Ok([ parcel |-> Some(<< SourceParcel("lib.wasm", "77ac3f", 40),
                              SourceParcel("lib.wasm", "c0ffee", 50) >>) ]) }

ClientNew(url) == IF url = "http://bindle" THEN Ok(url) ELSE Err("url")

wagi_features_of_handler(handler) ==
    << <<"route", handler.route>>, <<"file", "false">> >>

\* convert_external_parcel_ref_to_parcel up to its await: the error it returns at
\* once, or Ok(client) when it issues get_yanked_invoice
external_before_fetch(parcel_ref, url) ==
    IF ~IsSome(url) THEN Err("NoRegistry") ELSE ClientNew(url[1])

\* A resolution that takes the first parcel of the referenced name when there are
\* several
external_after_fetch_first_match(parcel_ref, response, wagi_features, member_of, requires) ==
    IF IsErr(response) THEN response
    ELSE LET source_parcels ==
                 IF IsSome(response[2].parcel) THEN response[2].parcel[1] ELSE <<>>
             matching_parcels ==
                 SelectSeq(source_parcels, LAMBDA p : p.label.name = parcel_ref.name)
         IN  IF Len(matching_parcels) = 0 THEN Err("NotFound")
             ELSE LET source_parcel == matching_parcels[1]
                  IN  parcel_of(parcel_ref.name, source_parcel.label.sha256,
                                source_parcel.label.media_type, source_parcel.label.size,
                                wagi_features, member_of, requires)

\* convert_external_parcel_ref_to_parcel from the answer of get_yanked_invoice on
external_after_fetch(parcel_ref, response, wagi_features, member_of, requires) ==
    IF IsErr(response) THEN response
    ELSE LET source_parcels ==
                 IF IsSome(response[2].parcel) THEN response[2].parcel[1] ELSE <<>>
             matching_parcels ==
                 SelectSeq(source_parcels, LAMBDA p : p.label.name = parcel_ref.name)
         IN  IF Len(matching_parcels) = 0 THEN Err("NotFound")
             ELSE IF Len(matching_parcels) > 1 THEN Err("Ambiguous")
             ELSE LET source_parcel == matching_parcels[1]
                  IN  parcel_of(parcel_ref.name, source_parcel.label.sha256,
                                source_parcel.label.media_type, source_parcel.label.size,
                                wagi_features, member_of, requires)

Pending == << "Pending" >>

Ready(output) == << "Ready", output >>

IsReady(future) == future[1] = "Ready"

\* A module parcel of a local file that requires no group
convert_one_handler_module_to_parcel_no_requires(dir, url, handler) ==
    IF handler.handler_module.kind = "File"
    THEN << "Ready", convert_one_match_to_parcel(dir,
                         to_absolute(handler.handler_module.name),
                         wagi_features_of_handler(handler), None, None) >>
    ELSE LET early == external_before_fetch(handler.handler_module.parcel_ref, url)
         IN  IF IsErr(early) THEN << "Ready", early >> ELSE << "Pending" >>

\* A resolution that gives up on the registry instead of waiting for its answer
convert_one_handler_module_to_parcel_timeout(dir, url, handler) ==
    IF handler.handler_module.kind = "File"
    THEN << "Ready", convert_one_match_to_parcel(dir,
                         to_absolute(handler.handler_module.name),
                         wagi_features_of_handler(handler), None,
                         Some(group_name(handler))) >>
    ELSE LET early == external_before_fetch(handler.handler_module.parcel_ref, url)
         IN  IF IsErr(early) THEN << "Ready", early >>
             ELSE << "Ready", Err("timeout") >>

\* The first poll of convert_one_handler_module_to_parcel
convert_one_handler_module_to_parcel(dir, url, handler) ==
    IF handler.handler_module.kind = "File"
    THEN Ready(convert_one_match_to_parcel(dir,
                   to_absolute(handler.handler_module.name),
                   wagi_features_of_handler(handler), None,
                   Some(group_name(handler))))
    ELSE LET early == external_before_fetch(handler.handler_module.parcel_ref, url)
         IN  IF IsErr(early) THEN Ready(early) ELSE Pending

\* The poll of convert_one_handler_module_to_parcel that finds the fetch answered
resume_external_conversion(handler, response) ==
    Ready(external_after_fetch(handler.handler_module.parcel_ref, response,
                               wagi_features_of_handler(handler), None,
                               Some(group_name(handler))))

----------------------------------------------------------------------------
(* expand *)

\* A chain that folds an asset parcel into an earlier parcel of its identity
chain_parcels_merged(module_parcels, asset_parcels) ==
    LET RECURSIVE fold(_)
        fold(n) ==
            IF n = 0 THEN module_parcels
            ELSE LET acc == fold(n - 1)
                     val == asset_parcels[n]
                 IN  IF \E k \in DOMAIN acc : file_id(acc[k]) = file_id(val)
                     THEN [ k \in DOMAIN acc |->
                              IF k = CHOOSE m \in DOMAIN acc :
                                       /\ file_id(acc[m]) = file_id(val)
                                       /\ \A l \in 1..(m - 1) :
                                            file_id(acc[l]) # file_id(val)
                              THEN merge_parcel_into(acc[k], val)
                              ELSE acc[k] ]
                     ELSE Append(acc, val)
    IN  fold(Len(asset_parcels))

\* handler_parcels.into_iter().chain(file_parcels).collect()
chain_parcels(module_parcels, asset_parcels) == module_parcels \o asset_parcels

expand_id(id_ok) == IF id_ok THEN Ok("weather/1.2.3") ELSE Err("bindle::Id")

Invoice(id, parcels, grps) ==
    [ bindle_version |-> "1.0.0", yanked |-> None, id |-> id,
      parcel |-> Some(parcels), group |-> Some(grps), signature |-> None ]

Init ==
    /\ raw = None
    /\ hippofacts \in Manifests
    /\ fs \in FileSystems
    /\ bindle_server_url \in ServerUrls
    /\ pc = "start"
    /\ groups = <<>>
    /\ conversions = <<>>
    /\ requested = {}
    /\ completed = <<>>
    /\ responses = <<>>
    /\ handler_parcels = <<>>
    /\ premerge = <<>>
    /\ file_parcels = <<>>
    /\ remerged = <<>>
    /\ result = None

\* expand up to the first poll of join_all: the groups are built and every
\* conversion is polled once, in manifest order
Start ==
    /\ pc = "start"
    /\ groups' = expand_all_handlers_to_groups(hippofacts)[2]
    /\ conversions' = [ i \in DOMAIN hippofacts.handler |->
           convert_one_handler_module_to_parcel(fs, bindle_server_url,
                                                hippofacts.handler[i]) ]
    /\ requested' = { i \in DOMAIN hippofacts.handler : ~IsReady(conversions'[i]) }
    /\ responses' = [ i \in DOMAIN hippofacts.handler |-> None ]
    /\ pc' = "join"
    /\ UNCHANGED << raw, completed, hippofacts, fs, bindle_server_url,
                    handler_parcels, premerge,
                    file_parcels, remerged, result >>

\* The registry answers handler i's get_yanked_invoice
FetchComplete(i) ==
    /\ pc = "join"
    /\ i \in DOMAIN conversions
    /\ ~IsReady(conversions[i])
    /\ \E response \in FetchResponses :
         /\ conversions' = [ conversions EXCEPT
                              ![i] = resume_external_conversion(hippofacts.handler[i],
                                                                response) ]
         /\ responses' = [ responses EXCEPT ![i] = Some(response) ]
    /\ completed' = Append(completed, i)
    /\ UNCHANGED << raw, hippofacts, fs, bindle_server_url, pc, groups, requested,
                    handler_parcels, premerge, file_parcels, remerged, result >>

\* join_all has every output: expand_handler_modules_to_parcels fails with the
\* first error in manifest order and expand returns it
JoinFailed ==
    /\ pc = "join"
    /\ \A i \in DOMAIN conversions : IsReady(conversions[i])
    /\ LET results == collect([ i \in DOMAIN conversions |-> conversions[i][2] ])
       IN  /\ IsErr(results)
           /\ result' = Some(results)
    /\ pc' = "done"
    /\ UNCHANGED << raw, completed, hippofacts, fs, bindle_server_url, groups, conversions,
                    requested, responses, handler_parcels, premerge, file_parcels, remerged >>

\* join_all has every output and all are Ok, but an asset fails: expand returns
\* the first error of expand_all_files_to_parcels
FilesFailed ==
    /\ pc = "join"
    /\ \A i \in DOMAIN conversions : IsReady(conversions[i])
    /\ LET results == collect([ i \in DOMAIN conversions |-> conversions[i][2] ])
           parcels == all_files_unmerged(fs, hippofacts)
       IN  /\ IsOk(results)
           /\ IsErr(parcels)
           /\ handler_parcels' = results[2]
           /\ result' = Some(parcels)
    /\ pc' = "done"
    /\ UNCHANGED << raw, completed, hippofacts, fs, bindle_server_url, groups, conversions,
                    requested, responses, premerge, file_parcels, remerged >>

\* join_all has every output, all are Ok and so are the assets: the asset parcels
\* are merged, chained after the handler parcels, and the invoice is assembled
\* (or expand_id fails)
Assemble ==
    /\ pc = "join"
    /\ \A i \in DOMAIN conversions : IsReady(conversions[i])
    /\ LET results == collect([ i \in DOMAIN conversions |-> conversions[i][2] ])
           parcels == all_files_unmerged(fs, hippofacts)
       IN  /\ IsOk(results)
           /\ IsOk(parcels)
           /\ handler_parcels' = results[2]
           /\ premerge' = parcels[2]
           /\ file_parcels' \in merge_memberships(parcels[2])
           /\ \E id_ok \in BOOLEAN :
                LET id == expand_id(id_ok)
                IN  result' = Some(IF IsErr(id) THEN id
                                   ELSE Ok(Invoice(id[2],
                                                   chain_parcels(results[2], file_parcels'),
                                                   groups)))
    /\ pc' = "done"
    /\ UNCHANGED << raw, completed, hippofacts, fs, bindle_server_url, groups, conversions,
                    requested, responses, remerged >>

Next ==
    \/ Start
    \/ \E i \in 1..MaxHandlers : FetchComplete(i)
    \/ JoinFailed
    \/ FilesFailed
    \/ Assemble

Spec == Init /\ [][Next]_vars

----------------------------------------------------------------------------
(* Vocabulary of the properties *)

Range(seq) == { seq[i] : i \in DOMAIN seq }

NumHandlers == Len(hippofacts.handler)

ModuleName(handler) ==
    IF handler.handler_module.kind = "File"
    THEN handler.handler_module.name
    ELSE handler.handler_module.parcel_ref.name

GroupOf(i) == ModuleName(hippofacts.handler[i]) \o "-files"

PatternsOf(i) ==
    IF IsSome(hippofacts.handler[i].files) THEN hippofacts.handler[i].files[1] ELSE <<>>

\* File f exists in the directory and a `files` pattern of handler i selects it
Matched(i, f) ==
    /\ fs[f] # "absent"
    /\ \E k \in DOMAIN PatternsOf(i) : f \in Range(Candidates(PatternsOf(i)[k]))

\* No `files` pattern of handler i selects an existing file
NoMatch(i) == \A f \in FileNames : ~Matched(i, f)

Returned == pc = "done" /\ IsOk(result[1])

InvoiceParcels == result[1][2].parcel[1]

InvoiceGroups == result[1][2].group[1]

MemberOf(parcel) == parcel.conditions[1].member_of

Requires(parcel) == parcel.conditions[1].requires

Members(parcel) == IF IsSome(MemberOf(parcel)) THEN Range(MemberOf(parcel)[1]) ELSE {}

Features(parcel) == parcel.label.feature[1].wagi

\* In a returned invoice the first NumHandlers parcels are the handlers' modules
\* and the others are the assets
HandlerParcelIndices == 1..NumHandlers

AssetParcelIndices == (NumHandlers + 1)..Len(InvoiceParcels)

NamedIndices(name) == { k \in DOMAIN InvoiceParcels : InvoiceParcels[k].label.name = name }

\* File f is the module of handler i and an asset of another handler j
ModuleAndAsset(i, j, f) ==
    /\ i # j
    /\ hippofacts.handler[i].handler_module = File(f)
    /\ Matched(j, f)

----------------------------------------------------------------------------
(* C1 *)

\* C1 as stated: a file that is one handler's module and another handler's asset
\* has exactly one parcel in the invoice, which is a member of the second handler's
\* group and requires the first handler's group.
C1_OneParcelForModuleAndAsset ==
    Returned =>
        \A i, j \in 1..NumHandlers : \A f \in FileNames :
            ModuleAndAsset(i, j, f) =>
                /\ Cardinality(NamedIndices(f)) = 1
                /\ \A k \in NamedIndices(f) :
                     /\ GroupOf(j) \in Members(InvoiceParcels[k])
                     /\ IsSome(Requires(InvoiceParcels[k]))
                     /\ GroupOf(i) \in Range(Requires(InvoiceParcels[k])[1])

\* C1 as amended: such a file has the module parcel of handler i (memberOf absent,
\* requires = [i's group]) and, apart from it, exactly one asset parcel (requires
\* absent) whose memberOf contains j's group; the two are not merged.
C1_ModuleAndAssetStaySeparate ==
    Returned =>
        \A i, j \in 1..NumHandlers : \A f \in FileNames :
            ModuleAndAsset(i, j, f) =>
                /\ InvoiceParcels[i].label.name = f
                /\ MemberOf(InvoiceParcels[i]) = None
                /\ Requires(InvoiceParcels[i]) = Some(<< GroupOf(i) >>)
                /\ Cardinality(NamedIndices(f) \cap AssetParcelIndices) = 1
                /\ \A k \in NamedIndices(f) \cap AssetParcelIndices :
                     /\ GroupOf(j) \in Members(InvoiceParcels[k])
                     /\ Requires(InvoiceParcels[k]) = None
                     /\ InvoiceParcels[k].label.sha256 = InvoiceParcels[i].label.sha256

C1_Witness ==
    /\ Returned
    /\ \E i, j \in 1..NumHandlers : \E f \in FileNames :
         /\ ModuleAndAsset(i, j, f)
         /\ Matched(i, f)
         /\ Cardinality(NamedIndices(f)) = 2

----------------------------------------------------------------------------
(* C2 *)

\* C2 as stated: a handler's module parcel requires its own group exactly when a
\* file matched the handler's patterns, and has no requires otherwise.
C2_RequiresOnlyWhenFilesMatched ==
    Returned =>
        \A i \in 1..NumHandlers :
            Requires(InvoiceParcels[i]) =
                IF NoMatch(i) THEN None ELSE Some(<< GroupOf(i) >>)

\* C2 as amended: a handler's module parcel always has requires = [its own group
\* name], whether or not any file matched the handler's patterns.
C2_RequiresOwnGroupAlways ==
    Returned =>
        \A i \in 1..NumHandlers :
            Requires(InvoiceParcels[i]) = Some(<< GroupOf(i) >>)

C2_Witness ==
    /\ Returned
    /\ \E i, j \in 1..NumHandlers :
         /\ NoMatch(i)
         /\ ~NoMatch(j)
         /\ GroupOf(i) # GroupOf(j)

----------------------------------------------------------------------------
(* C3 *)

\* C3 as stated: every parcel's feature map has a route key and a file key; a
\* handler-module parcel has file = "false" and its handler's route, an asset
\* parcel has file = "true" and route = "".
C3_RouteAndFileOnEveryParcel ==
    Returned =>
        /\ \A i \in HandlerParcelIndices :
             Features(InvoiceParcels[i]) =
                 [ route |-> hippofacts.handler[i].route, file |-> "false" ]
        /\ \A k \in AssetParcelIndices :
             Features(InvoiceParcels[k]) = [ route |-> "", file |-> "true" ]

\* C3 as amended: a handler-module parcel's feature map holds file = "false" and
\* route = its handler's route; an asset parcel's feature map holds file = "true"
\* and no route key at all.
C3_AssetsHaveNoRoute ==
    Returned =>
        /\ \A i \in HandlerParcelIndices :
             /\ IsSome(InvoiceParcels[i].label.feature)
             /\ DOMAIN Features(InvoiceParcels[i]) = { "route", "file" }
             /\ Features(InvoiceParcels[i]).file = "false"
             /\ Features(InvoiceParcels[i]).route = hippofacts.handler[i].route
        /\ \A k \in AssetParcelIndices :
             /\ IsSome(InvoiceParcels[k].label.feature)
             /\ DOMAIN Features(InvoiceParcels[k]) = { "file" }
             /\ Features(InvoiceParcels[k]).file = "true"

C3_Witness ==
    /\ Returned
    /\ NumHandlers = 2
    /\ \E i \in HandlerParcelIndices :
         hippofacts.handler[i].handler_module.kind = "External"
    /\ \E i \in HandlerParcelIndices :
         hippofacts.handler[i].handler_module.kind = "File"
    /\ AssetParcelIndices # {}

----------------------------------------------------------------------------
(* C4 *)

\* C4: the invoice has one group per handler, in manifest order, named after the
\* handler's module name (or external parcel name) followed by "-files"; equal
\* names are not merged.
C4_OneGroupPerHandler ==
    Returned =>
        /\ Len(InvoiceGroups) = NumHandlers
        /\ \A i \in 1..NumHandlers :
             InvoiceGroups[i].name = ModuleName(hippofacts.handler[i]) \o "-files"

C4_Witness ==
    /\ Returned
    /\ NumHandlers = 2
    /\ InvoiceGroups[1].name = InvoiceGroups[2].name
    /\ InvoiceGroups[1].name = "w.wasm-files"

----------------------------------------------------------------------------
(* C5 *)

\* C5: before the merge every asset parcel is memberOf exactly the one group of a
\* handler whose pattern matched its file, one parcel per match; in the invoice
\* the groups in an asset parcel's memberOf are exactly the groups of the handlers
\* whose patterns match that file.
C5_AssetMembership ==
    Returned =>
        /\ \A k \in DOMAIN premerge :
             /\ IsSome(MemberOf(premerge[k]))
             /\ Len(MemberOf(premerge[k])[1]) = 1
             /\ \E i \in 1..NumHandlers :
                  /\ MemberOf(premerge[k])[1] = << GroupOf(i) >>
                  /\ Matched(i, premerge[k].label.name)
        /\ \A i \in 1..NumHandlers : \A f \in FileNames :
             Matched(i, f) =>
                 \E k \in DOMAIN premerge :
                     /\ premerge[k].label.name = f
                     /\ MemberOf(premerge[k]) = Some(<< GroupOf(i) >>)
        /\ \A k \in AssetParcelIndices :
             Members(InvoiceParcels[k]) =
                 { GroupOf(i) : i \in { h \in 1..NumHandlers :
                                          Matched(h, InvoiceParcels[k].label.name) } }

C5_Witness ==
    /\ Returned
    /\ \E k1, k2 \in AssetParcelIndices :
         /\ Cardinality(Members(InvoiceParcels[k1])) = 2
         /\ Cardinality(Members(InvoiceParcels[k2])) = 1

----------------------------------------------------------------------------
(* The merge step on its own: merge_memberships applied to a parcel list, then *)
(* to its own output                                                         *)

GroupNames == { "w.wasm-files", "lib.wasm-files" }

\* (name, content) pairs: one content under two names, one name with two contents
MergeIdentities == { <<"a.js", "c1">>, <<"w.wasm", "c1">>, <<"a.js", "c2">> }

\* Parcels as parcel_of builds them, in either role
MergePool ==
    { parcel_of(id[1], Sha256(id[2]), mime_guess(<< id[1] >>), SizeOf(id[2]),
                << <<"file", "true">> >>, Some(g), None)[2] :
        id \in MergeIdentities, g \in GroupNames }
    \cup
    { parcel_of(id[1], Sha256(id[2]), mime_guess(<< id[1] >>), SizeOf(id[2]),
                << <<"route", "/a">>, <<"file", "false">> >>, None, Some(g))[2] :
        id \in MergeIdentities, g \in GroupNames }

RECURSIVE ParcelLists(_)
ParcelLists(n) ==
    IF n = 0 THEN { <<>> }
    ELSE { <<>> } \cup { << p >> \o l : p \in MergePool, l \in ParcelLists(n - 1) }

InitMerge ==
    /\ raw = None
    /\ premerge \in ParcelLists(MaxLen)
    /\ pc = "merge"
    /\ hippofacts = [ handler |-> <<>> ]
    /\ fs = [ f \in FileNames |-> "absent" ]
    /\ bindle_server_url = None
    /\ groups = <<>>
    /\ conversions = <<>>
    /\ requested = {}
    /\ completed = <<>>
    /\ responses = <<>>
    /\ handler_parcels = <<>>
    /\ file_parcels = <<>>
    /\ remerged = <<>>
    /\ result = None

MergeOnce ==
    /\ pc = "merge"
    /\ file_parcels' \in merge_memberships(premerge)
    /\ pc' = "merged"
    /\ UNCHANGED << raw, completed, hippofacts, fs, bindle_server_url, groups, conversions,
                    requested, responses, handler_parcels, premerge, remerged,
                    result >>

MergeAgain ==
    /\ pc = "merged"
    /\ remerged' \in merge_memberships(file_parcels)
    /\ pc' = "remerged"
    /\ UNCHANGED << raw, completed, hippofacts, fs, bindle_server_url, groups, conversions,
                    requested, responses, handler_parcels, premerge, file_parcels,
                    result >>

NextMerge == MergeOnce \/ MergeAgain

SpecMerge == InitMerge /\ [][NextMerge]_vars

Merged == pc \in { "merged", "remerged" }

SameIdentity(p, q) == p.label.sha256 = q.label.sha256 /\ p.label.name = q.label.name

\* The input positions that hold parcel p's identity
Sources(p) == { i \in DOMAIN premerge : SameIdentity(premerge[i], p) }

First(indices) == CHOOSE i \in indices : \A j \in indices : i <= j

MemberList(parcel) == IF IsSome(MemberOf(parcel)) THEN MemberOf(parcel)[1] ELSE <<>>

\* The memberOf lists of the input parcels of p's identity, one after the other
RECURSIVE ConcatMembers(_, _)
ConcatMembers(p, i) ==
    IF i > Len(premerge) THEN <<>>
    ELSE (IF SameIdentity(premerge[i], p) THEN MemberList(premerge[i]) ELSE <<>>)
         \o ConcatMembers(p, i + 1)

----------------------------------------------------------------------------
(* C6 *)

\* C6: merge_memberships folds the parcels of one identity (digest, name) into one
\* parcel: its label is the first such parcel's label, its memberOf is the
\* concatenation of their memberOf lists in encounter order (duplicates kept,
\* absent when all are absent) and its requires is the first parcel's requires,
\* even when that one is absent and a later one is not.
C6_MergeFoldsInEncounterOrder ==
    Merged =>
        /\ \A i \in DOMAIN premerge :
             Cardinality({ k \in DOMAIN file_parcels :
                             SameIdentity(file_parcels[k], premerge[i]) }) = 1
        /\ \A k \in DOMAIN file_parcels :
             LET p == file_parcels[k]
             IN  /\ Sources(p) # {}
                 /\ p.label = premerge[First(Sources(p))].label
                 /\ Requires(p) = Requires(premerge[First(Sources(p))])
                 /\ MemberList(p) = ConcatMembers(p, 1)
                 /\ MemberOf(p) = None <=>
                        \A i \in Sources(p) : MemberOf(premerge[i]) = None

C6_Witness ==
    /\ pc = "merged"
    /\ \E k \in DOMAIN file_parcels :
         /\ Requires(file_parcels[k]) = None
         /\ \E g \in GroupNames : MemberOf(file_parcels[k]) = Some(<< g, g >>)
         /\ \E i \in Sources(file_parcels[k]) : Requires(premerge[i]) # None

----------------------------------------------------------------------------
(* C7 *)

\* C7: merging is idempotent: merge_memberships applied to its own output returns
\* the same parcel list.
C7_MergeIdempotent == pc = "remerged" => remerged = file_parcels

----------------------------------------------------------------------------
(* C8 *)

Ids(parcels) == [ i \in DOMAIN parcels |-> file_id(parcels[i]) ]

\* The identities of a list, each at the place of its first occurrence
RECURSIVE FirstOccurrences(_)
FirstOccurrences(ids) ==
    IF ids = <<>> THEN <<>>
    ELSE LET before == FirstOccurrences(SubSeq(ids, 1, Len(ids) - 1))
         IN  IF ids[Len(ids)] \in Range(before) THEN before
             ELSE Append(before, ids[Len(ids)])

\* C8: the invoice lists the handler-module parcels in manifest order, then the
\* asset parcels, each identity at the place of its first occurrence in the
\* pre-merge list, so the parcel sequence is a function of the manifest and files.
C8_ParcelOrderPreserved ==
    Returned =>
        Ids(InvoiceParcels) = Ids(handler_parcels) \o FirstOccurrences(Ids(premerge))

----------------------------------------------------------------------------
(* C9 *)

\* C9 as stated: a handler whose patterns match no file (files absent, empty, or
\* nothing matching) makes expand_files_to_parcels yield no parcel and no error,
\* and no parcel of the invoice is memberOf that handler's group.
C9_NoMatchNoMembers ==
    /\ \A i \in 1..NumHandlers :
         NoMatch(i) => expand_files_to_parcels(fs, hippofacts.handler[i]) = Ok(<<>>)
    /\ Returned =>
         \A i \in 1..NumHandlers :
             NoMatch(i) =>
                 \A k \in DOMAIN InvoiceParcels : GroupOf(i) \notin Members(InvoiceParcels[k])

\* C9 as amended: such a handler yields no parcel and no error, and a parcel of
\* the invoice is memberOf its group only when another handler with the same
\* group name has a pattern matching that parcel's file.
C9_NoMatchNoMembersOfItsOwn ==
    /\ \A i \in 1..NumHandlers :
         NoMatch(i) => expand_files_to_parcels(fs, hippofacts.handler[i]) = Ok(<<>>)
    /\ (pc = "done" /\ \A i \in 1..NumHandlers :
                          NoMatch(i) /\ IsOk(conversions[i][2]))
           => (IsOk(result[1]) \/ result[1] = Err("bindle::Id"))
    /\ Returned =>
         \A i \in 1..NumHandlers :
             NoMatch(i) =>
                 \A k \in DOMAIN InvoiceParcels :
                     GroupOf(i) \in Members(InvoiceParcels[k]) =>
                         \E j \in 1..NumHandlers :
                             /\ j # i
                             /\ GroupOf(j) = GroupOf(i)
                             /\ Matched(j, InvoiceParcels[k].label.name)

C9_Witness ==
    /\ Returned
    /\ AssetParcelIndices # {}
    /\ \E i \in 1..NumHandlers :
         /\ hippofacts.handler[i].files = Some(<< "a.js" >>)
         /\ fs["a.js"] = "absent"
         /\ \A k \in DOMAIN InvoiceParcels : GroupOf(i) \notin Members(InvoiceParcels[k])

----------------------------------------------------------------------------
(* C10 *)

IsExternal(i) == hippofacts.handler[i].handler_module.kind = "External"

RefOf(i) == hippofacts.handler[i].handler_module.parcel_ref

SourceParcels(i) ==
    IF IsSome(responses[i][1][2].parcel) THEN responses[i][1][2].parcel[1] ELSE <<>>

NameMatches(i) ==
    { k \in DOMAIN SourceParcels(i) : SourceParcels(i)[k].label.name = RefOf(i).name }

\* C10: an external handler fails with the no-registry error and without a fetch
\* when no registry is configured; once the invoice is fetched, no parcel of the
\* referenced name is a not-found error, several are an ambiguous error, and one
\* gives a parcel of the referenced name with the source's digest, media type and
\* size and this handler's features and conditions.
C10_ExternalOutcomes ==
    \A i \in DOMAIN conversions :
        IsExternal(i) =>
            /\ bindle_server_url = None =>
                 /\ conversions[i] = Ready(Err("NoRegistry"))
                 /\ i \notin requested
                 /\ responses[i] = None
            /\ (IsSome(responses[i]) /\ IsOk(responses[i][1])) =>
                 /\ i \in requested
                 /\ Cardinality(NameMatches(i)) = 0 =>
                        conversions[i] = Ready(Err("NotFound"))
                 /\ Cardinality(NameMatches(i)) > 1 =>
                        conversions[i] = Ready(Err("Ambiguous"))
                 /\ Cardinality(NameMatches(i)) = 1 =>
                        LET source == SourceParcels(i)[CHOOSE k \in NameMatches(i) : TRUE]
                        IN  /\ IsReady(conversions[i])
                            /\ IsOk(conversions[i][2])
                            /\ conversions[i][2][2].label =
                                 [ name |-> RefOf(i).name,
                                   sha256 |-> source.label.sha256,
                                   media_type |-> source.label.media_type,
                                   size |-> source.label.size,
                                   feature |-> Some([ wagi |->
                                       [ route |-> hippofacts.handler[i].route,
                                         file |-> "false" ] ]) ]
                            /\ conversions[i][2][2].conditions =
                                 Some([ member_of |-> None,
                                        requires |-> Some(<< GroupOf(i) >>) ])

C10_Witness ==
    /\ pc = "join"
    /\ \E i, j \in DOMAIN conversions :
         /\ IsExternal(i)
         /\ IsExternal(j)
         /\ IsSome(responses[i])
         /\ IsOk(responses[i][1])
         /\ Cardinality(NameMatches(i)) = 1
         /\ IsOk(conversions[i][2])
         /\ conversions[j] = Ready(Err("Ambiguous"))

\* ------------------------------------------------------------------------
\* Manifest parsing (hippofacts.rs).  A manifest string is a sequence of
\* tokens in which ":" is the separator character and every other token is
\* a run of characters free of ':'.
\* ------------------------------------------------------------------------

\* str::split(':'): the parts between separators; n separators give n+1
\* parts, and the empty text gives one empty part.
RECURSIVE split(_)
split(text) ==
    IF text = << >> THEN << "" >>
    ELSE LET bits == split(SubSeq(text, 1, Len(text) - 1))
             last == text[Len(text)]
         IN  IF last = ":" THEN Append(bits, "")
             ELSE [bits EXCEPT ![Len(bits)] = bits[Len(bits)] \o last]

\* bindle::Id::try_from: a name and a semver version separated by '/'.
WellFormedIds == { "pkg/1.0.0" }

Id_try_from(text) ==
    IF text \in WellFormedIds THEN Ok(text) ELSE Err("bindle::Id")

ParcelReference_parse(text) ==
    LET bits == split(text)
    IN  IF Len(bits) = 2
        THEN LET id == Id_try_from(bits[1])
             IN  IF IsErr(id) THEN id
                 ELSE Ok([bindle_id |-> id[2], name |-> bits[2]])
        ELSE Err("External reference must be of the form 'bindle_id:parcel_name'")

handler_module_name_wins(raw_handler) ==
    IF IsSome(raw_handler.name) THEN Ok(File(raw_handler.name[1]))
    ELSE IF IsSome(raw_handler.external)
    THEN LET parcel_ref == ParcelReference_parse(raw_handler.external[1])
         IN  IF IsErr(parcel_ref) THEN parcel_ref
             ELSE Ok(External(parcel_ref[2]))
    ELSE Err("You must specify one of 'name' or 'external'")

handler_module(raw_handler) ==
    IF IsSome(raw_handler.name) /\ ~IsSome(raw_handler.external)
    THEN Ok(File(raw_handler.name[1]))
    ELSE IF ~IsSome(raw_handler.name) /\ IsSome(raw_handler.external)
    THEN LET parcel_ref == ParcelReference_parse(raw_handler.external[1])
         IN  IF IsErr(parcel_ref) THEN parcel_ref
             ELSE Ok(External(parcel_ref[2]))
    ELSE IF ~IsSome(raw_handler.name) /\ ~IsSome(raw_handler.external)
    THEN Err("You must specify one of 'name' or 'external'")
    ELSE Err("You cannot specify both 'name' and 'external'")

Handler_parse(raw_handler) ==
    LET module == handler_module(raw_handler)
    IN  IF IsErr(module) THEN module
        ELSE Ok([handler_module |-> module[2],
                 route          |-> raw_handler.route,
                 files          |-> raw_handler.files])

HippoFacts_parse(raw_handlers) ==
    IF ~IsSome(raw_handlers)
    THEN Err("Artifact spec must specify at least one handler")
    ELSE IF Len(raw_handlers[1]) = 0
    THEN Err("Artifact spec must specify at least one handler")
    ELSE LET handlers == collect([i \in DOMAIN raw_handlers[1] |->
                                     Handler_parse(raw_handlers[1][i])])
         IN  IF IsErr(handlers) THEN handlers
             ELSE Ok([handler |-> handlers[2]])

\* The manifests a TOML file can deserialise to.
ExternalTexts ==
    { << "pkg/1.0.0", ":", "lib.wasm" >>,
      << "lib.wasm" >>,
      << "pkg/1.0.0", ":", "lib.wasm", ":", "x" >>,
      << "not an id", ":", "lib.wasm" >> }

RawHandlers(i) ==
    [ name     : { None, Some("w.wasm") },
      external : { None } \cup { Some(text) : text \in ExternalTexts },
      route    : { RouteOf(i) },
      files    : { None, Some(<< "*" >>) } ]

RECURSIVE RawHandlerLists(_)
RawHandlerLists(n) ==
    IF n = 0 THEN { << >> }
    ELSE { Append(hs, h) : hs \in RawHandlerLists(n - 1), h \in RawHandlers(n) }

RawManifests ==
    { None } \cup { Some(hs) : hs \in UNION { RawHandlerLists(n) : n \in 0..MaxHandlers } }

InitParse ==
    /\ raw \in RawManifests
    /\ hippofacts = [handler |-> << >>]
    /\ fs \in FileSystems
    /\ bindle_server_url \in ServerUrls
    /\ pc = "parse"
    /\ groups = << >>
    /\ conversions = << >>
    /\ requested = {}
    /\ completed = <<>>
    /\ responses = << >>
    /\ handler_parcels = << >>
    /\ premerge = << >>
    /\ file_parcels = << >>
    /\ remerged = << >>
    /\ result = None

\* read_from_file then, on success only, expand: a manifest that fails to
\* parse ends the run with the parse error.
ParseFailed ==
    /\ pc = "parse"
    /\ IsErr(HippoFacts_parse(raw))
    /\ result' = Some(HippoFacts_parse(raw))
    /\ pc' = "done"
    /\ UNCHANGED << raw, completed, hippofacts, fs, bindle_server_url, groups, conversions,
                    requested, responses, handler_parcels, premerge, file_parcels,
                    remerged >>

ParseOk ==
    /\ pc = "parse"
    /\ IsOk(HippoFacts_parse(raw))
    /\ hippofacts' = HippoFacts_parse(raw)[2]
    /\ pc' = "start"
    /\ UNCHANGED << raw, completed, fs, bindle_server_url, groups, conversions, requested,
                    responses, handler_parcels, premerge, file_parcels, remerged,
                    result >>

NextParse ==
    \/ ParseFailed
    \/ ParseOk
    \/ Start
    \/ \E i \in 1..MaxHandlers : FetchComplete(i)
    \/ JoinFailed
    \/ FilesFailed
    \/ Assemble

SpecParse == InitParse /\ [][NextParse]_vars

\* Vocabulary of C11, stated on the raw manifest alone.
RawHandlerList == IF IsSome(raw) THEN raw[1] ELSE << >>

Separators(text) == Cardinality({ k \in DOMAIN text : text[k] = ":" })

HasNeither(h) == h.name = None /\ h.external = None

HasBoth(h) == h.name # None /\ h.external # None

TwoParts(h) == h.external # None => Separators(h.external[1]) = 1

WellFormedHandler(h) == ~HasNeither(h) /\ ~HasBoth(h) /\ TwoParts(h)

\* The text before the only separator is a bindle id.
IdAccepted(h) ==
    (h.external # None /\ Separators(h.external[1]) = 1)
        => h.external[1][1] \in WellFormedIds

Parsed == pc # "parse"

ParseError == Parsed /\ hippofacts = [handler |-> << >>]

NoExpansionStep ==
    /\ groups = << >>
    /\ conversions = << >>
    /\ requested = {}
    /\ completed = <<>>
    /\ handler_parcels = << >>
    /\ premerge = << >>
    /\ file_parcels = << >>

FirstIllFormed ==
    CHOOSE i \in DOMAIN RawHandlerList :
        /\ ~WellFormedHandler(RawHandlerList[i])
        /\ \A j \in 1..(i - 1) : WellFormedHandler(RawHandlerList[j])

\* C11: parsing succeeds only if the manifest declares at least one handler,
\* every handler gives exactly one of name and external, and every external
\* text has exactly two ':'-separated parts.  A handler with neither is
\* rejected with the missing-module error and one with both with the
\* ambiguous-module error, unless an earlier handler's bindle id was refused;
\* a rejected manifest ends the run with the parse error and no expansion
\* step taken.
C11_ParseRejectsIllFormedManifests ==
    Parsed =>
        /\ ~ParseError =>
              /\ Len(RawHandlerList) >= 1
              /\ \A i \in DOMAIN RawHandlerList : WellFormedHandler(RawHandlerList[i])
              /\ Len(hippofacts.handler) = Len(RawHandlerList)
        /\ (Len(RawHandlerList) = 0
              \/ \E i \in DOMAIN RawHandlerList : ~WellFormedHandler(RawHandlerList[i]))
           => /\ ParseError
              /\ pc = "done"
              /\ result # None /\ IsErr(result[1])
              /\ NoExpansionStep
        /\ (/\ \E i \in DOMAIN RawHandlerList : ~WellFormedHandler(RawHandlerList[i])
            /\ \A j \in 1..(FirstIllFormed - 1) : IdAccepted(RawHandlerList[j]))
           => LET h == RawHandlerList[FirstIllFormed]
              IN  /\ HasNeither(h) =>
                        result = Some(Err("You must specify one of 'name' or 'external'"))
                  /\ HasBoth(h) =>
                        result = Some(Err("You cannot specify both 'name' and 'external'"))
                  /\ (~HasNeither(h) /\ ~HasBoth(h)) =>
                        result = Some(Err("External reference must be of the form 'bindle_id:parcel_name'"))

C11_Witness ==
    /\ pc = "done"
    /\ Len(RawHandlerList) = 2
    /\ WellFormedHandler(RawHandlerList[1])
    /\ HasBoth(RawHandlerList[2])
    /\ result = Some(Err("You cannot specify both 'name' and 'external'"))
    /\ NoExpansionStep

----------------------------------------------------------------------------
(* C12 *)

Done == pc = "done"

HandlerFails(i) == IsReady(conversions[i]) /\ IsErr(conversions[i][2])

\* The k-th pattern of handler i selects file f, which cannot be listed or opened
MatchFailsAt(i, k, f) ==
    /\ k \in DOMAIN PatternsOf(i)
    /\ f \in Range(Candidates(PatternsOf(i)[k]))
    /\ fs[f] \in { "denied", "globerr" }

MatchFails(i) == \E k \in DOMAIN PatternsOf(i) : \E f \in FileNames : MatchFailsAt(i, k, f)

MatchError(f) == IF fs[f] = "globerr" THEN Err("GlobError") ELSE Err("open")

FirstFailingHandler ==
    CHOOSE i \in 1..NumHandlers :
        HandlerFails(i) /\ \A j \in 1..(i - 1) : ~HandlerFails(j)

\* The first failing match: first handler, then first pattern, then first match
FirstFailingMatch ==
    LET i == CHOOSE i \in 1..NumHandlers :
                 MatchFails(i) /\ \A j \in 1..(i - 1) : ~MatchFails(j)
        k == CHOOSE k \in DOMAIN PatternsOf(i) :
                 /\ \E f \in FileNames : MatchFailsAt(i, k, f)
                 /\ \A j \in 1..(k - 1) : \A f \in FileNames : ~MatchFailsAt(i, j, f)
        names == Candidates(PatternsOf(i)[k])
        n == CHOOSE n \in DOMAIN names :
                 /\ MatchFailsAt(i, k, names[n])
                 /\ \A m \in 1..(n - 1) : ~MatchFailsAt(i, k, names[m])
    IN  names[n]

\* C12: no partial success.  When expand has returned: a failed module
\* resolution or a failed glob match makes the result an error; a returned
\* invoice has a module parcel for every handler and an asset parcel for every
\* glob match; and a returned error is the first in processing order, which is
\* the handlers in manifest order, then the matches handler by handler and
\* pattern by pattern, then the invoice id.
C12_NoPartialSuccess ==
    Done =>
        /\ ((\E i \in 1..NumHandlers : HandlerFails(i))
               \/ (\E i \in 1..NumHandlers : MatchFails(i)))
           => IsErr(result[1])
        /\ IsOk(result[1]) =>
              /\ Len(InvoiceParcels) >= NumHandlers
              /\ \A i \in 1..NumHandlers :
                    /\ InvoiceParcels[i].label.name = ModuleName(hippofacts.handler[i])
                    /\ IsSome(Requires(InvoiceParcels[i]))
                    /\ \A f \in FileNames :
                          Matched(i, f) =>
                             \E k \in AssetParcelIndices :
                                /\ InvoiceParcels[k].label.name = f
                                /\ GroupOf(i) \in Members(InvoiceParcels[k])
        /\ (\E i \in 1..NumHandlers : HandlerFails(i))
           => result[1] = conversions[FirstFailingHandler][2]
        /\ ((\A i \in 1..NumHandlers : ~HandlerFails(i))
               /\ (\E i \in 1..NumHandlers : MatchFails(i)))
           => result[1] = MatchError(FirstFailingMatch)
        /\ ((\A i \in 1..NumHandlers : ~HandlerFails(i) /\ ~MatchFails(i))
               /\ IsErr(result[1]))
           => result[1] = expand_id(FALSE)

\* Both handlers' modules were built and the second handler matches a file that
\* can be read and one that cannot: the result is the error of the latter
C12_Witness ==
    /\ Done
    /\ NumHandlers = 2
    /\ ~HandlerFails(1) /\ ~HandlerFails(2)
    /\ Len(handler_parcels) = 2
    /\ ~MatchFails(1)
    /\ MatchFails(2) /\ Matched(2, "w.wasm") /\ fs["w.wasm"] \in Contents
    /\ result = Some(MatchError("a.js"))

----------------------------------------------------------------------------
(* C13 *)

WithRequires(name) == { k \in NamedIndices(name) : IsSome(Requires(InvoiceParcels[k])) }

WithMemberOf(name) == { k \in NamedIndices(name) : IsSome(MemberOf(InvoiceParcels[k])) }

HandlersOfModule(f) ==
    { i \in 1..NumHandlers : hippofacts.handler[i].handler_module = File(f) }

RolesKeptApart ==
    /\ \A k \in HandlerParcelIndices :
          MemberOf(InvoiceParcels[k]) = None /\ IsSome(Requires(InvoiceParcels[k]))
    /\ \A k \in AssetParcelIndices :
          Requires(InvoiceParcels[k]) = None /\ IsSome(MemberOf(InvoiceParcels[k]))

\* C13 as stated: in a returned invoice no module parcel has memberOf and no
\* asset parcel has requires, and a file that is one handler's module and
\* another handler's asset has exactly two parcels of its name, exactly one
\* with requires set and exactly one with memberOf set.
C13_TwoParcelsOneOfEachRole ==
    Returned =>
        /\ RolesKeptApart
        /\ \A i, j \in 1..NumHandlers : \A f \in FileNames :
              ModuleAndAsset(i, j, f) =>
                 /\ Cardinality(NamedIndices(f)) = 2
                 /\ Cardinality(WithRequires(f)) = 1
                 /\ Cardinality(WithMemberOf(f)) = 1

\* C13: in a returned invoice no module parcel has memberOf and no asset
\* parcel has requires, and a file that is one handler's module and another
\* handler's asset has exactly one parcel with memberOf set and one parcel
\* with requires set for each handler that has it as its module, these being
\* all the parcels of its name and none being both.
C13_OneAssetParcelAndOneModuleParcelPerHandler ==
    Returned =>
        /\ RolesKeptApart
        /\ \A i, j \in 1..NumHandlers : \A f \in FileNames :
              ModuleAndAsset(i, j, f) =>
                 /\ Cardinality(WithMemberOf(f)) = 1
                 /\ WithRequires(f) = HandlersOfModule(f)
                 /\ WithRequires(f) \cap WithMemberOf(f) = {}
                 /\ NamedIndices(f) = WithRequires(f) \cup WithMemberOf(f)

\* Two handlers have w.wasm as their module and one of them also has it as an
\* asset: three parcels of that name
C13_Witness ==
    /\ Returned
    /\ NumHandlers = 2
    /\ HandlersOfModule("w.wasm") = { 1, 2 }
    /\ ModuleAndAsset(1, 2, "w.wasm")
    /\ Cardinality(NamedIndices("w.wasm")) = 3

----------------------------------------------------------------------------
(* C14 *)

Joining == pc = "join"

SomeHandlerFailed == \E i \in DOMAIN conversions : HandlerFails(i)

\* Every resolution has been started: it has its outcome or its fetch is out
AllLaunched ==
    /\ DOMAIN conversions = 1..NumHandlers
    /\ \A i \in 1..NumHandlers : IsReady(conversions[i]) \/ i \in requested

\* expand can return an error at its next step
CanFailNow == ENABLED (Next /\ Done' /\ IsErr(result'[1]))

\* C14 as stated: once the join is under way every resolution has been
\* launched, and as soon as one resolution has failed expand returns the
\* failure, without waiting for the resolutions still in progress.
C14_FailsAsSoonAsOneFails ==
    /\ Joining => AllLaunched
    /\ (Joining /\ SomeHandlerFailed) => CanFailNow

----------------------------------------------------------------------------
(* C15 *)

\* A step of expand from the completed join to its return: one of JoinFailed,
\* FilesFailed and Assemble, whichever the outputs decide
Resume ==
    /\ pc = "join"
    /\ \A i \in DOMAIN conversions : IsReady(conversions[i])
    /\ pc' = "done"

\* The executor polls expand whenever it can make progress; nothing obliges
\* the registry to answer a fetch.
\* The inputs of Init with one asset pattern and one way for an asset to fail:
\* whether expand returns does not depend on what the patterns select
InitLive ==
    /\ Init
    /\ fs["a.js"] \in { "c1", "globerr" }
    /\ \A i \in DOMAIN hippofacts.handler :
          hippofacts.handler[i].files \in { None, Some(<< "*" >>) }

SpecLive ==
    /\ InitLive
    /\ [][Next]_vars
    /\ WF_vars(Start)
    /\ WF_pc(Resume)

\* Handler i's resolution issues a registry fetch
Fetches(i) == IsExternal(i) /\ bindle_server_url = Some("http://bindle")

Answered(i) == i \in DOMAIN responses /\ IsSome(responses[i])

EveryFetchAnswered ==
    /\ pc # "start"
    /\ \A i \in 1..NumHandlers : Fetches(i) => Answered(i)

\* C15: expand eventually returns if and only if every registry fetch it
\* launched is eventually answered: it returns once all are answered, it has
\* not returned while one is unanswered whatever the other outcomes, and an
\* answer once received is never replaced by that of another attempt.
C15_ReturnsIffEveryFetchCompletes ==
    /\ EveryFetchAnswered ~> Done
    /\ [](Done => EveryFetchAnswered)
    /\ [][\A i \in 1..NumHandlers : Answered(i) => responses'[i] = responses[i]]_vars

\* One handler has failed and the other's fetch is unanswered: expand waits
C15_Witness ==
    /\ Joining
    /\ NumHandlers = 2
    /\ HandlerFails(1)
    /\ Fetches(2) /\ ~Answered(2)
    /\ result = None

----------------------------------------------------------------------------
(* C16 *)

\* The output positions that hold parcel p's identity
Outputs(p) == { k \in DOMAIN file_parcels : SameIdentity(file_parcels[k], p) }

\* C16: the merge output holds exactly one parcel for each (digest, name) pair
\* of its input and no parcel of another pair, so parcels that differ in name
\* or in digest stay separate and no identity of the input is lost.
C16_OneParcelPerIdentity ==
    Merged =>
        /\ \A i \in DOMAIN premerge : Cardinality(Outputs(premerge[i])) = 1
        /\ \A k \in DOMAIN file_parcels : Sources(file_parcels[k]) # {}
        /\ \A i, j \in DOMAIN premerge :
              ~SameIdentity(premerge[i], premerge[j])
                 => Outputs(premerge[i]) \cap Outputs(premerge[j]) = {}

\* One digest under two names and one name with two digests, and a duplicate
C16_Witness ==
    /\ Merged
    /\ \E i, j, k \in DOMAIN premerge :
          /\ premerge[i].label.sha256 = premerge[j].label.sha256
          /\ premerge[i].label.name # premerge[j].label.name
          /\ premerge[i].label.name = premerge[k].label.name
          /\ premerge[i].label.sha256 # premerge[k].label.sha256
    /\ Len(file_parcels) = 3

----------------------------------------------------------------------------
(* C17 *)

\* C17: whatever the order in which the fetches were answered, when expand
\* has returned and every resolution succeeded the handler-module parcels are
\* the resolutions' outputs in manifest order, and when some resolution
\* failed the result is the error of the first failing handler of the
\* manifest.
C17_JoinResultInManifestOrder ==
    Done =>
        /\ (\A i \in 1..NumHandlers : ~HandlerFails(i)) =>
              /\ Len(handler_parcels) = NumHandlers
              /\ \A i \in 1..NumHandlers :
                    /\ handler_parcels[i] = conversions[i][2][2]
                    /\ handler_parcels[i].label.name = ModuleName(hippofacts.handler[i])
                    /\ Features(handler_parcels[i]).route = hippofacts.handler[i].route
        /\ (\E i \in 1..NumHandlers : HandlerFails(i)) =>
              /\ result[1] = conversions[FirstFailingHandler][2]
              /\ handler_parcels = << >>

\* The second handler's fetch was answered before the first's and the two
\* failed differently: the error is the first handler's
C17_Witness ==
    /\ Done
    /\ completed = << 2, 1 >>
    /\ HandlerFails(1) /\ HandlerFails(2)
    /\ conversions[1][2] # conversions[2][2]
    /\ result = Some(conversions[1][2])

====
